---- MODULE Spec2Model ----
(***************************************************************************)
(* Model of web/src/components/countryhistorymixgraph.js:                  *)
(*   - prepareGraphData / getValuesInfo, the transform from a zone's       *)
(*     history batch to the layer records of the area graph;              *)
(*   - the six interaction handlers of CountryHistoryMixGraph and the     *)
(*     state they write (tooltip, selectedLayerIndex, and the store's     *)
(*     selectedZoneTimeIndex).                                             *)
(*                                                                         *)
(* JavaScript values are records [t, n, d]: t = "num" is the rational n/d  *)
(* in lowest terms with d > 0; t = "NaN", "undefined", "null" are those    *)
(* values. The signed zero -0 that -1 * 0 produces is identified with 0    *)
(* (it compares equal and >= 0 in JavaScript). Infinity does not occur:    *)
(* the inputs are JSON numbers and no divisor is 0.                        *)
(***************************************************************************)
EXTENDS Integers, Sequences, FiniteSets, TLC

VARIABLES
  \* ---- props of the component / arguments of prepareGraphData
  historyDefined,      \* FALSE when historyData is null / undefined
  historyTotals,       \* per record of historyData: its total* fields
  displayByEmissions,
  electricityMixMode,
  exchangeKeys,        \* sequence of the zone's known exchange keys
  isMobile,
  \* ---- position inside prepareGraphData
  pc,                  \* "start", "map", "callback", "done", "threw"
  valueFactor, valueAxisLabel,
  formatterCalled,     \* formatting.scalePower has been called
  d,                   \* the record the map callback is running on
  obj,                 \* the LayerRecord it has built (key -> value)
  dataLen,             \* number of LayerRecords map has collected
  result,              \* "none", "empty" ({}), "full"
  layerKeys,
  \* ---- component and store state
  tooltip, selectedLayerIndex, selectedZoneTimeIndex,
  lastEvent            \* the interaction callback invoked last

vars == <<historyDefined, historyTotals, displayByEmissions, electricityMixMode,
          exchangeKeys, isMobile, pc, valueFactor, valueAxisLabel,
          formatterCalled, d, obj, dataLen, result, layerKeys,
          tooltip, selectedLayerIndex, selectedZoneTimeIndex, lastEvent>>

propVars == <<historyDefined, historyTotals, displayByEmissions,
              electricityMixMode, exchangeKeys, isMobile>>
prepVars == <<pc, valueFactor, valueAxisLabel, formatterCalled, d, obj,
              dataLen, result, layerKeys>>
uiVars == <<tooltip, selectedLayerIndex, selectedZoneTimeIndex, lastEvent>>

(***************************************************************************)
(* Bounds                                                                  *)
(***************************************************************************)
MaxBatch == 2        \* longest history batch
MaxIndex == 1        \* largest time index / layer index of an event

(***************************************************************************)
(* JavaScript numbers                                                      *)
(***************************************************************************)
Abs(x) == IF x < 0 THEN -x ELSE x

RECURSIVE GCD(_, _)
GCD(a, b) == IF b = 0 THEN a ELSE GCD(b, a % b)

Rat(n, dd) ==
  LET g == GCD(Abs(n), Abs(dd))
      s == IF dd < 0 THEN -1 ELSE 1
  IN  [t |-> "num", n |-> s * (n \div g), d |-> s * (dd \div g)]

Number(n) == [t |-> "num", n |-> n, d |-> 1]
NaN == [t |-> "NaN", n |-> 0, d |-> 1]
Undefined == [t |-> "undefined", n |-> 0, d |-> 1]
Null == [t |-> "null", n |-> 0, d |-> 1]
\* not a value: the marker of a TypeError thrown while computing a field
TypeError == [t |-> "TypeError", n |-> 0, d |-> 1]

IsNum(v) == v.t = "num"

\* ToNumber: undefined -> NaN, null -> 0
ToNumber(v) ==
  CASE v.t = "undefined" -> NaN
    [] v.t = "null" -> Number(0)
    [] OTHER -> v

Mul(a, b) ==
  LET x == ToNumber(a)
      y == ToNumber(b)
  IN  IF IsNum(x) /\ IsNum(y) THEN Rat(x.n * y.n, x.d * y.d) ELSE NaN

\* a / b for a divisor b that is never 0
Div(a, b) ==
  LET x == ToNumber(a)
      y == ToNumber(b)
  IN  IF IsNum(x) /\ IsNum(y) /\ y.n # 0 THEN Rat(x.n * y.d, x.d * y.n) ELSE NaN

\* a < b: false when either side is not a number (NaN, undefined)
Less(a, b) == IsNum(a) /\ IsNum(b) /\ a.n * b.d < b.n * a.d

\* Math.min(0, v) and Math.max(0, v)
MathMin0(v) ==
  LET x == ToNumber(v)
  IN  IF IsNum(x) THEN (IF x.n < 0 THEN x ELSE Number(0)) ELSE NaN

MathMax0(v) ==
  LET x == ToNumber(v)
  IN  IF IsNum(x) THEN (IF x.n > 0 THEN x ELSE Number(0)) ELSE NaN

\* Number.isFinite(v): a number that is neither NaN nor infinite
NumberIsFinite(v) == IsNum(v)

\* v != null (loose): v is neither null nor undefined
NotNullish(v) == v.t \notin {"null", "undefined"}

\* v >= 0 as JavaScript evaluates it on a number or NaN
GeZero(v) == IsNum(v) /\ v.n >= 0

\* table[key] of a plain object: undefined when the key is absent
Lookup(table, key) == IF key \in DOMAIN table THEN table[key] ELSE Undefined

EmptyObject == [x \in {} |-> Undefined]

\* an object-valued field of a record that may be undefined
NoTable == [defined |-> FALSE, map |-> EmptyObject]
Table(m) == [defined |-> TRUE, map |-> m]

\* (t || {})
OrEmpty(tbl) == IF tbl.defined THEN tbl.map ELSE EmptyObject

\* t[key] where t may be undefined: a TypeError then
Member(tbl, key) == IF tbl.defined THEN Lookup(tbl.map, key) ELSE TypeError

(***************************************************************************)
(* Collaborators that are not part of this file                            *)
(***************************************************************************)
\* helpers/constants modeOrder, cut down to one generation category and one
\* storage category
modeOrder == <<"gas", "battery storage">>

ModeKeys == {modeOrder[j] : j \in 1..Len(modeOrder)}

\* k.indexOf('storage') !== -1
IsStorage(k) == k = "battery storage"

\* k.replace(' storage', '')
StorageKey(k) == IF k = "battery storage" THEN "battery" ELSE k

\* formatting.scalePower: the unit of a peak value in MW and the divisor that
\* brings values to that unit
scalePower(maxPower) ==
  IF Less(maxPower, Number(1))
    THEN [unit |-> "kW", formattingFactor |-> Rat(1, 1000)]
    ELSE IF Less(maxPower, Number(1000))
           THEN [unit |-> "MW", formattingFactor |-> Number(1)]
           ELSE [unit |-> "GW", formattingFactor |-> Number(1000)]

\* helpers/graph getTooltipPosition
getTooltipPosition(mobile, position) ==
  IF mobile THEN [x |-> 0, y |-> 0] ELSE position

(***************************************************************************)
(* Inputs: the history records the store can hand to the component         *)
(***************************************************************************)
Partners == {"US"}

\* the total* aggregate fields of a record
Totals(p, i, s, cp, ci, cs) ==
  [totalProduction |-> p, totalImport |-> i, totalDischarge |-> s,
   totalCo2Production |-> cp, totalCo2Import |-> ci, totalCo2Discharge |-> cs]

TotalsProfiles ==
  { Totals(300, 100, 0, 30000000, 0, 0),
    Totals(900, 200, 40, 120000000, 60000000, 0) }

ProductionTables == {NoTable, Table([k \in {"gas"} |-> Null]),
                     Table([k \in {"gas"} |-> Number(100)])}
StorageTables == {NoTable, Table([k \in {"battery"} |-> Null]),
                  Table([k \in {"battery"} |-> Number(-40)]),
                  Table([k \in {"battery"} |-> Number(40)])}
ExchangeTables == {Table(EmptyObject), Table([k \in {"US"} |-> Number(-30)]),
                   Table([k \in {"US"} |-> Number(30)])}
ProductionIntensityTables ==
  {NoTable, Table(EmptyObject), Table([k \in {"gas"} |-> Number(600)])}
DischargeIntensityTables ==
  {NoTable, Table(EmptyObject), Table([k \in {"battery"} |-> Number(-300)]),
   Table([k \in {"battery"} |-> Number(300)])}
ExchangeIntensityTables ==
  {NoTable, Table(EmptyObject), Table([k \in {"US"} |-> Number(-150)]),
   Table([k \in {"US"} |-> Number(150)])}

\* a history record without its totals
RecordBodies ==
  [production : ProductionTables, storage : StorageTables,
   exchange : ExchangeTables,
   productionCo2Intensities : ProductionIntensityTables,
   dischargeCo2Intensities : DischargeIntensityTables,
   exchangeCo2Intensities : ExchangeIntensityTables]

HistoryRecord(body, totals) ==
  [production |-> body.production, storage |-> body.storage,
   exchange |-> body.exchange,
   productionCo2Intensities |-> body.productionCo2Intensities,
   dischargeCo2Intensities |-> body.dischargeCo2Intensities,
   exchangeCo2Intensities |-> body.exchangeCo2Intensities,
   totals |-> totals]

NoRecord ==
  HistoryRecord([production |-> NoTable, storage |-> NoTable,
                 exchange |-> NoTable, productionCo2Intensities |-> NoTable,
                 dischargeCo2Intensities |-> NoTable,
                 exchangeCo2Intensities |-> NoTable],
                Totals(0, 0, 0, 0, 0, 0))

RECURSIVE SeqsUpTo(_, _)
SeqsUpTo(S, n) ==
  IF n = 0 THEN {<< >>}
  ELSE LET shorter == SeqsUpTo(S, n - 1)
       IN  shorter \cup {Append(s, x) : s \in {q \in shorter : Len(q) = n - 1}, x \in S}

(***************************************************************************)
(* getValuesInfo                                                           *)
(***************************************************************************)
\* the accessor handed to d3Max
TotalValue(tot, emissions) ==
  IF emissions
    THEN Div(Div(Number(tot.totalCo2Production + tot.totalCo2Import
                        + tot.totalCo2Discharge), Number(1000000)), Number(60))
    ELSE Number(tot.totalProduction + tot.totalImport + tot.totalDischarge)

\* d3Max: undefined for an empty batch
d3Max(totals, emissions) ==
  LET vals == {TotalValue(totals[j], emissions) : j \in 1..Len(totals)}
  IN  IF vals = {} THEN Undefined
      ELSE CHOOSE m \in vals : \A v \in vals : ~Less(m, v)

getValuesInfo(totals, emissions) ==
  LET format == scalePower(d3Max(totals, emissions))
  IN  [valueAxisLabel |-> IF emissions THEN "tCO2eq / min" ELSE format.unit,
       valueFactor |-> format.formattingFactor]

(***************************************************************************)
(* prepareGraphData: the map callback                                      *)
(***************************************************************************)
\* x *= intensity / 1e3 / 60.0, the intensity read from a table that may be
\* undefined
TimesIntensity(x, intensity) ==
  IF intensity = TypeError THEN TypeError
  ELSE Mul(x, Div(Div(intensity, Number(1000)), Number(60)))

\* variant: Math.max(0, storage) in place of -1 * Math.min(0, storage)
ModeValue_Unnegated(k, rec) ==
  IF IsStorage(k)
    THEN MathMax0(Lookup(OrEmpty(rec.storage), StorageKey(k)))
    ELSE Lookup(OrEmpty(rec.production), k)

\* variant: -1 * storage, without Math.min
ModeValue_Unclamped(k, rec) ==
  IF IsStorage(k)
    THEN Mul(Number(-1), Lookup(OrEmpty(rec.storage), StorageKey(k)))
    ELSE Lookup(OrEmpty(rec.production), k)

\* the value read for category k before scaling
ModeValue(k, rec) ==
  IF IsStorage(k)
    THEN Mul(Number(-1), MathMin0(Lookup(OrEmpty(rec.storage), StorageKey(k))))
    ELSE Lookup(OrEmpty(rec.production), k)

\* obj[k] after the body of modeOrder.forEach
ModeField(k, rec, vf, emissions) ==
  LET value == ModeValue(k, rec)
      scaled == Div(value, vf)
  IN  IF NumberIsFinite(value) /\ emissions /\ NotNullish(scaled)
        THEN IF IsStorage(k) /\ GeZero(scaled)
               THEN TimesIntensity(scaled, Member(rec.dischargeCo2Intensities, StorageKey(k)))
               ELSE TimesIntensity(scaled, Member(rec.productionCo2Intensities, k))
        ELSE scaled

\* variant: value / valueFactor without Math.max
ExchangeField_Unclamped(key, rec, vf, emissions) ==
  LET value == OrEmpty(rec.exchange)[key]
      scaled == Div(value, vf)
  IN  IF NumberIsFinite(value) /\ emissions /\ NotNullish(scaled)
        THEN TimesIntensity(scaled, Member(rec.exchangeCo2Intensities, key))
        ELSE scaled

\* obj[key] after the body of forEach(d.exchange, ...)
ExchangeField(key, rec, vf, emissions) ==
  LET value == OrEmpty(rec.exchange)[key]
      scaled == MathMax0(Div(value, vf))
  IN  IF NumberIsFinite(value) /\ emissions /\ NotNullish(scaled)
        THEN TimesIntensity(scaled, Member(rec.exchangeCo2Intensities, key))
        ELSE scaled

\* variant: the exchange loop runs in every mode
ExchangeFieldKeys_AnyMode(rec, mode) == DOMAIN OrEmpty(rec.exchange)

\* variant: the mode test inverted
ExchangeFieldKeys_Production(rec, mode) ==
  IF mode = "production" THEN DOMAIN OrEmpty(rec.exchange) ELSE {}

\* the keys forEach(d.exchange, ...) visits, when the mode lets it run
ExchangeFieldKeys(rec, mode) ==
  IF mode = "consumption" THEN DOMAIN OrEmpty(rec.exchange) ELSE {}

\* the object the callback builds (without datetime and meta; meta is rec)
LayerRecord(rec, vf, emissions, mode) ==
  [k \in ModeKeys \cup ExchangeFieldKeys(rec, mode) |->
     IF k \in ModeKeys THEN ModeField(k, rec, vf, emissions)
     ELSE ExchangeField(k, rec, vf, emissions)]

Throws(o) == \E k \in DOMAIN o : o[k] = TypeError

(***************************************************************************)
(* prepareGraphData as a process                                           *)
(***************************************************************************)
ExchangeKeySeqs == SeqsUpTo(Partners, Cardinality(Partners))

NoTooltip ==
  [shown |-> FALSE, mode |-> "", position |-> [x |-> 0, y |-> 0],
   zoneData |-> NoRecord]

NoEvent ==
  [name |-> "none", timeIndex |-> Null, layerIndex |-> Null,
   position |-> [x |-> 0, y |-> 0], layerKey |-> "", meta |-> NoRecord]

InitPrepare ==
  /\ pc = "start"
  /\ valueFactor = Undefined
  /\ valueAxisLabel = ""
  /\ formatterCalled = FALSE
  /\ d = NoRecord
  /\ obj = EmptyObject
  /\ dataLen = 0
  /\ result = "none"
  /\ layerKeys = << >>

\* useState(null), twice; the store has no selected time index
InitComponent ==
  /\ tooltip = NoTooltip
  /\ selectedLayerIndex = Null
  /\ selectedZoneTimeIndex = Null
  /\ lastEvent = NoEvent

Init ==
  /\ historyDefined \in BOOLEAN
  /\ historyTotals \in SeqsUpTo(TotalsProfiles, MaxBatch)
  /\ historyDefined = FALSE => historyTotals = << >>
  /\ displayByEmissions \in BOOLEAN
  /\ electricityMixMode \in {"production", "consumption"}
  /\ exchangeKeys \in ExchangeKeySeqs
  /\ isMobile = FALSE
  /\ InitPrepare
  /\ InitComponent

\* variant: only the null check, !historyData
IsEmptyBatch_OnlyNull(defined, totals) == ~defined

\* !historyData || !historyData[0]
IsEmptyBatch(defined, totals) == ~defined \/ Len(totals) = 0

\* if (!historyData || !historyData[0]) return {};
ReturnEmpty ==
  /\ pc = "start"
  /\ IsEmptyBatch(historyDefined, historyTotals)
  /\ result' = "empty"
  /\ pc' = "done"
  /\ UNCHANGED <<valueFactor, valueAxisLabel, formatterCalled, d, obj, dataLen,
                 layerKeys>>
  /\ UNCHANGED <<propVars, uiVars>>

\* const { valueAxisLabel, valueFactor } = getValuesInfo(...)
CallGetValuesInfo ==
  /\ pc = "start"
  /\ ~IsEmptyBatch(historyDefined, historyTotals)
  /\ LET info == getValuesInfo(historyTotals, displayByEmissions)
     IN  /\ valueFactor' = info.valueFactor
         /\ valueAxisLabel' = info.valueAxisLabel
  /\ formatterCalled' = TRUE
  /\ pc' = "map"
  /\ UNCHANGED <<d, obj, dataLen, result, layerKeys>>
  /\ UNCHANGED <<propVars, uiVars>>

\* the callback of historyData.map runs on the next record of the batch, up
\* to its return statement; the fields of the record other than its totals
\* are read here for the first time
MapCallback ==
  /\ pc = "map"
  /\ dataLen < Len(historyTotals)
  /\ \E body \in RecordBodies :
       LET rec == HistoryRecord(body, historyTotals[dataLen + 1])
           o == LayerRecord(rec, valueFactor, displayByEmissions, electricityMixMode)
       IN  /\ d' = rec
           /\ obj' = o
           /\ pc' = IF Throws(o) THEN "threw" ELSE "callback"
  /\ UNCHANGED <<valueFactor, valueAxisLabel, formatterCalled, dataLen, result,
                 layerKeys>>
  /\ UNCHANGED <<propVars, uiVars>>

\* return obj: map stores the record in data; d and obj go out of scope
MapReturn ==
  /\ pc = "callback"
  /\ dataLen' = dataLen + 1
  /\ d' = NoRecord
  /\ obj' = EmptyObject
  /\ pc' = "map"
  /\ UNCHANGED <<valueFactor, valueAxisLabel, formatterCalled, result, layerKeys>>
  /\ UNCHANGED <<propVars, uiVars>>

\* const layerKeys = modeOrder.concat(exchangeKeys); return {data, ...}
ReturnData ==
  /\ pc = "map"
  /\ dataLen = Len(historyTotals)
  /\ layerKeys' = modeOrder \o exchangeKeys
  /\ result' = "full"
  /\ pc' = "done"
  /\ UNCHANGED <<valueFactor, valueAxisLabel, formatterCalled, d, obj, dataLen>>
  /\ UNCHANGED <<propVars, uiVars>>

Next == ReturnEmpty \/ CallGetValuesInfo \/ MapCallback \/ MapReturn \/ ReturnData

Spec == Init /\ [][Next]_vars

\* obj is a LayerRecord the callback returns, d the record it was made from
Produced == pc = "callback"

(***************************************************************************)
(* The interaction handlers of CountryHistoryMixGraph                      *)
(***************************************************************************)
\* what the area graph passes to the callbacks
TimeIndices == {Number(j) : j \in 0..MaxIndex}
LayerIndices == {Number(j) : j \in 0..MaxIndex}
Positions == {[x |-> 3, y |-> 4], [x |-> 7, y |-> 2]}
LayerKeyArgs == ModeKeys \cup Partners
MetaRecords ==
  { HistoryRecord([production |-> Table([k \in {"gas"} |-> Number(100)]),
                   storage |-> Table([k \in {"battery"} |-> Number(st)]),
                   exchange |-> Table([k \in {"US"} |-> Number(30)]),
                   productionCo2Intensities |-> Table([k \in {"gas"} |-> Number(600)]),
                   dischargeCo2Intensities |-> Table([k \in {"battery"} |-> Number(300)]),
                   exchangeCo2Intensities |-> Table([k \in {"US"} |-> Number(150)])],
                  Totals(300, 100, 0, 30000000, 0, 0)) : st \in {-40, 40} }

Event(name, timeIndex, layerIndex, position, layerKey, meta) ==
  [name |-> name, timeIndex |-> timeIndex, layerIndex |-> layerIndex,
   position |-> position, layerKey |-> layerKey, meta |-> meta]

\* store.dispatchApplication(key, value): sets state.application[key]
dispatchApplication(key, value) ==
  IF key = "selectedZoneTimeIndex"
    THEN selectedZoneTimeIndex' = value
    ELSE UNCHANGED selectedZoneTimeIndex

backgroundMouseMoveHandler(timeIndex) ==
  /\ dispatchApplication("selectedZoneTimeIndex", timeIndex)
  /\ lastEvent' = Event("backgroundMouseMove", timeIndex, Null,
                        NoEvent.position, "", NoRecord)
  /\ UNCHANGED <<tooltip, selectedLayerIndex>>
  /\ UNCHANGED <<propVars, prepVars>>

\* variant: the pointer leaving the background also hides the tooltip
backgroundMouseOutHandler_HidesTooltip(timeIndex) ==
  /\ dispatchApplication("selectedZoneTimeIndex", Null)
  /\ tooltip' = NoTooltip
  /\ lastEvent' = Event("backgroundMouseOut", timeIndex, Null,
                        NoEvent.position, "", NoRecord)
  /\ UNCHANGED selectedLayerIndex
  /\ UNCHANGED <<propVars, prepVars>>

backgroundMouseOutHandler(timeIndex) ==
  /\ dispatchApplication("selectedZoneTimeIndex", Null)
  /\ lastEvent' = Event("backgroundMouseOut", timeIndex, Null,
                        NoEvent.position, "", NoRecord)
  /\ UNCHANGED <<tooltip, selectedLayerIndex>>
  /\ UNCHANGED <<propVars, prepVars>>

layerMouseMoveHandler(timeIndex, layerIndex) ==
  /\ dispatchApplication("selectedZoneTimeIndex", timeIndex)
  /\ selectedLayerIndex' = layerIndex
  /\ lastEvent' = Event("layerMouseMove", timeIndex, layerIndex,
                        NoEvent.position, "", NoRecord)
  /\ UNCHANGED tooltip
  /\ UNCHANGED <<propVars, prepVars>>

\* variant: the hovered layer is not cleared
layerMouseOutHandler_KeepsLayer ==
  /\ dispatchApplication("selectedZoneTimeIndex", Null)
  /\ lastEvent' = Event("layerMouseOut", Null, Null, NoEvent.position, "",
                        NoRecord)
  /\ UNCHANGED <<tooltip, selectedLayerIndex>>
  /\ UNCHANGED <<propVars, prepVars>>

layerMouseOutHandler ==
  /\ dispatchApplication("selectedZoneTimeIndex", Null)
  /\ selectedLayerIndex' = Null
  /\ lastEvent' = Event("layerMouseOut", Null, Null, NoEvent.position, "",
                        NoRecord)
  /\ UNCHANGED tooltip
  /\ UNCHANGED <<propVars, prepVars>>

\* datapoint is given by its meta field, the only one the handler reads
markerUpdateHandler(position, meta, layerKey) ==
  /\ tooltip' = [shown |-> TRUE, mode |-> layerKey,
                 position |-> getTooltipPosition(isMobile, position),
                 zoneData |-> meta]
  /\ lastEvent' = Event("markerUpdate", Null, Null, position, layerKey, meta)
  /\ UNCHANGED <<selectedLayerIndex, selectedZoneTimeIndex>>
  /\ UNCHANGED <<propVars, prepVars>>

\* variant: hiding the marker leaves the tooltip
markerHideHandler_Keeps ==
  /\ lastEvent' = Event("markerHide", Null, Null, NoEvent.position, "",
                        NoRecord)
  /\ UNCHANGED <<tooltip, selectedLayerIndex, selectedZoneTimeIndex>>
  /\ UNCHANGED <<propVars, prepVars>>

markerHideHandler ==
  /\ tooltip' = NoTooltip
  /\ lastEvent' = Event("markerHide", Null, Null, NoEvent.position, "",
                        NoRecord)
  /\ UNCHANGED <<selectedLayerIndex, selectedZoneTimeIndex>>
  /\ UNCHANGED <<propVars, prepVars>>

BackgroundMouseMove == \E t \in TimeIndices : backgroundMouseMoveHandler(t)
BackgroundMouseOut == \E t \in TimeIndices : backgroundMouseOutHandler(t)
LayerMouseMove ==
  \E t \in TimeIndices, l \in LayerIndices : layerMouseMoveHandler(t, l)
LayerMouseOut == layerMouseOutHandler
MarkerUpdate ==
  \E p \in Positions, m \in MetaRecords, k \in LayerKeyArgs :
    markerUpdateHandler(p, m, k)
MarkerHide == markerHideHandler

\* the mounted component: one batch, any flags
InitUI ==
  /\ historyDefined = TRUE
  /\ historyTotals = <<Totals(300, 100, 0, 30000000, 0, 0)>>
  /\ displayByEmissions = FALSE
  /\ electricityMixMode = "consumption"
  /\ exchangeKeys = <<"US">>
  /\ isMobile \in BOOLEAN
  /\ InitPrepare
  /\ InitComponent

NextUI ==
  \/ BackgroundMouseMove
  \/ BackgroundMouseOut
  \/ LayerMouseMove
  \/ LayerMouseOut
  \/ MarkerUpdate
  \/ MarkerHide

SpecUI == InitUI /\ [][NextUI]_vars

(***************************************************************************)
(* Properties                                                              *)
(***************************************************************************)
Range(f) == {f[j] : j \in DOMAIN f}
StorageKeys == {k \in ModeKeys : IsStorage(k)}
ExchangeFields == DOMAIN obj \ ModeKeys
RawStorage(k) == Lookup(OrEmpty(d.storage), StorageKey(k))
RawExchange(key) == Lookup(OrEmpty(d.exchange), key)
DischargeIntensity(k) == Member(d.dischargeCo2Intensities, StorageKey(k))
ProductionIntensity(k) == Member(d.productionCo2Intensities, k)
ExchangeIntensity(key) == Member(d.exchangeCo2Intensities, key)
Negative(v) == IsNum(v) /\ v.n < 0
Positive(v) == IsNum(v) /\ v.n > 0
Missing(v) == v \in {Undefined, TypeError}

\* C1 as stated: with emissions display off, a storage category whose raw
\* net storage value is negative has layer value 0, and one whose raw value v
\* is positive has layer value v / scaleFactor.
C1_AsStated ==
  (Produced /\ ~displayByEmissions) =>
    \A k \in StorageKeys :
      /\ Negative(RawStorage(k)) => obj[k] = Number(0)
      /\ Positive(RawStorage(k)) => obj[k] = Div(RawStorage(k), valueFactor)

\* C1 amended: with emissions display off, a storage category whose raw net
\* storage value v is negative has layer value -v / scaleFactor, and one
\* whose raw value is positive has layer value 0.
C1_StorageNegatedAndFloored ==
  (Produced /\ ~displayByEmissions) =>
    \A k \in StorageKeys :
      /\ Negative(RawStorage(k)) =>
           obj[k] = Div(Mul(Number(-1), RawStorage(k)), valueFactor)
      /\ Positive(RawStorage(k)) => obj[k] = Number(0)

C1_Witness ==
  /\ Produced /\ ~displayByEmissions /\ valueFactor = Number(1)
  /\ RawStorage("battery storage") = Number(-40)
  /\ obj["battery storage"] = Number(40)

\* C2 as stated: every storage field of every output record is >= 0, for
\* every combination of flags.
C2_AsStated ==
  Produced => \A k \in StorageKeys : GeZero(obj[k])

\* C2 amended: a storage field is never negative when emissions display is
\* off or the category's discharge intensity is not negative; it is NaN, not
\* a number >= 0, exactly when the record holds no storage value for the
\* category, or emissions display is on and the discharge intensity entry is
\* missing.
C2_StorageNotNegative ==
  Produced =>
    \A k \in StorageKeys :
      /\ (~displayByEmissions \/ ~Negative(DischargeIntensity(k)))
           => ~Negative(obj[k])
      /\ obj[k] = NaN <=>
           \/ RawStorage(k) = Undefined
           \/ displayByEmissions /\ DischargeIntensity(k) = Undefined
      /\ obj[k] # NaN => IsNum(obj[k])

C2_Witness ==
  /\ Produced /\ displayByEmissions
  /\ RawStorage("battery storage") = Number(40)
  /\ DischargeIntensity("battery storage") = Number(300)
  /\ obj["battery storage"] = Number(0)

C4_ExchangeOnlyInConsumption ==
  Produced =>
    /\ ExchangeFields # {} => electricityMixMode = "consumption"
    /\ electricityMixMode = "production" => DOMAIN obj = ModeKeys

C4_Witness ==
  /\ Produced /\ electricityMixMode = "production"
  /\ RawExchange("US") = Number(30)
  /\ "US" \notin DOMAIN obj

\* the value of field k in power units: the raw value, negated and floored
\* as its kind requires, divided by the scale factor
PowerUnitValue(k) ==
  IF k \in ModeKeys THEN Div(ModeValue(k, d), valueFactor)
  ELSE MathMax0(Div(RawExchange(k), valueFactor))

RawValue(k) ==
  IF k \in ModeKeys
    THEN (IF IsStorage(k) THEN RawStorage(k) ELSE Lookup(OrEmpty(d.production), k))
    ELSE RawExchange(k)

FieldIntensity(k) ==
  IF k \in ModeKeys
    THEN (IF IsStorage(k) THEN DischargeIntensity(k) ELSE ProductionIntensity(k))
    ELSE ExchangeIntensity(k)

\* C5 as stated: with emissions display on, a field whose raw value is not
\* finite or whose carbon intensity is missing keeps its power-unit value,
\* and no error is raised.
C5_AsStated ==
  /\ pc # "threw"
  /\ (Produced /\ displayByEmissions) =>
       \A k \in DOMAIN obj :
         (~NumberIsFinite(RawValue(k)) \/ Missing(FieldIntensity(k)))
           => obj[k] = PowerUnitValue(k)

\* C6 as stated: the tooltip starts hidden, a marker update shows it with
\* the given payload, and after a marker hide, a layer pointer-out or a
\* background pointer-out it is hidden.
C6_AsStated ==
  /\ lastEvent.name = "none" => tooltip = NoTooltip
  /\ lastEvent.name = "markerUpdate" =>
       tooltip = [shown |-> TRUE, mode |-> lastEvent.layerKey,
                  position |-> getTooltipPosition(isMobile, lastEvent.position),
                  zoneData |-> lastEvent.meta]
  /\ lastEvent.name \in {"markerHide", "layerMouseOut", "backgroundMouseOut"}
       => tooltip = NoTooltip

\* C6 amended: the tooltip starts hidden, a marker update shows it with the
\* given payload, and a marker hide hides it whatever the payload was; a
\* layer pointer-out or background pointer-out leaves it as it was, shown or
\* hidden.
C6_TooltipTransitions ==
  /\ [](/\ lastEvent.name = "none" => tooltip = NoTooltip
        /\ lastEvent.name = "markerUpdate" =>
             tooltip = [shown |-> TRUE, mode |-> lastEvent.layerKey,
                        position |-> getTooltipPosition(isMobile, lastEvent.position),
                        zoneData |-> lastEvent.meta]
        /\ lastEvent.name = "markerHide" => tooltip = NoTooltip)
  /\ [][lastEvent'.name \in {"layerMouseOut", "backgroundMouseOut"}
          => tooltip' = tooltip]_vars

C6_Witness ==
  lastEvent.name \in {"layerMouseOut", "backgroundMouseOut"} /\ tooltip.shown

\* C7: for an absent or empty history batch prepareGraphData returns {} (no
\* data, no layer keys, no axis label), whatever the other inputs, without
\* calling the unit-scale formatter and without failing.
C7_EmptyBatchEmptyResult ==
  (~historyDefined \/ Len(historyTotals) = 0) =>
    /\ pc \in {"start", "done"}
    /\ ~formatterCalled
    /\ dataLen = 0 /\ layerKeys = << >> /\ valueAxisLabel = ""
    /\ pc = "done" => result = "empty"

C7_Witness ==
  /\ pc = "done" /\ result = "empty"
  /\ historyDefined /\ Len(historyTotals) = 0
  /\ displayByEmissions /\ electricityMixMode = "consumption"

\* C8: right after a layer pointer-move at (timeIndex, layerIndex) the
\* selected time index of the store is timeIndex and the hovered layer index
\* is layerIndex; right after a layer pointer-out both are null.
C8_LayerHover ==
  /\ lastEvent.name = "layerMouseMove" =>
       /\ selectedZoneTimeIndex = lastEvent.timeIndex
       /\ selectedLayerIndex = lastEvent.layerIndex
  /\ lastEvent.name = "layerMouseOut" =>
       /\ selectedZoneTimeIndex = Null
       /\ selectedLayerIndex = Null

C8_Witness ==
  /\ lastEvent.name = "layerMouseMove"
  /\ selectedZoneTimeIndex = Number(1) /\ selectedLayerIndex = Number(0)

\* C9 as stated: in consumption mode every output record has an exchange
\* field for each key of the exchange-key set passed to prepareGraphData and
\* none for a key outside it, whatever its own exchange map holds.
C9_AsStated ==
  (Produced /\ electricityMixMode = "consumption") =>
    ExchangeFields = Range(exchangeKeys)

\* C9 amended: in consumption mode every output record has an exchange field
\* for each key of its own exchange map and none for any other key, whatever
\* exchange-key set was passed; layerKeys is the category order followed by
\* the passed exchange keys, so a listed exchange key has a value in a record
\* only when that record's exchange map holds it.
C9_ExchangeFieldsFromRecord ==
  /\ (Produced /\ electricityMixMode = "consumption") =>
       /\ ExchangeFields = DOMAIN OrEmpty(d.exchange)
       /\ ModeKeys \subseteq DOMAIN obj
  /\ result = "full" => layerKeys = modeOrder \o exchangeKeys

C9_Witness ==
  /\ Produced /\ electricityMixMode = "consumption"
  /\ exchangeKeys = <<"US">>
  /\ "US" \notin DOMAIN OrEmpty(d.exchange)
  /\ "US" \notin DOMAIN obj

\* C10: the tooltip is changed only by the marker-update and marker-hide
\* handlers, which leave the selected time index and the hovered layer index
\* unchanged; the background handlers change only the selected time index;
\* the layer handlers leave the tooltip unchanged.
C10_HandlerFrames ==
  [][/\ tooltip' # tooltip => lastEvent'.name \in {"markerUpdate", "markerHide"}
     /\ lastEvent'.name \in {"markerUpdate", "markerHide"} =>
          UNCHANGED <<selectedZoneTimeIndex, selectedLayerIndex>>
     /\ lastEvent'.name \in {"backgroundMouseMove", "backgroundMouseOut"} =>
          UNCHANGED <<tooltip, selectedLayerIndex>>
     /\ lastEvent'.name \in {"layerMouseMove", "layerMouseOut"} =>
          UNCHANGED tooltip
     /\ UNCHANGED <<propVars, prepVars>>]_vars

C10_Witness ==
  /\ lastEvent.name = "backgroundMouseOut"
  /\ tooltip.shown /\ selectedLayerIndex # Null
  /\ selectedZoneTimeIndex = Null
====
